---- MODULE Spec2Model ----
(***************************************************************************)
(* hub-robot-core: the Button input engine (src/src/button.cpp, button.h). *)
(* One Button object is a record of its fields; tick() and the two edge    *)
(* handlers are operators on that record; the actions below drive them     *)
(* with a millisecond clock and a pin level.                               *)
(***************************************************************************)
EXTENDS Integers, Naturals, Sequences, FiniteSets, TLC

\* ------------------------------------------------------------------ bounds
\* width of unsigned long in the model (the target has 32 bits)
TimeBits == 11
\* the general specification explores this many milliseconds after construction
MaxElapsed == 14
\* largest number of milliseconds between two ticks in the general specification
MaxStep == 2
\* configuration of the general specification (constructor arguments)
CfgDebounce == 1
CfgLongPress == 4
CfgDoublePress == 6

\* ------------------------------------------------------- program constants
BUTTON_UP == 0
BUTTON_DOWN == 1
LOW == 0
HIGH == 1
\* default constructor arguments (button.h)
DefaultDebounce == 25
DefaultLongPress == 800
DefaultDoublePress == 300

Wrap == 2 ^ TimeBits
ULONG_MAX == Wrap - 1

\* unsigned long subtraction a - b
Sub(a, b) == (a - b + Wrap) % Wrap

\* C's logical negation of an int
LogicalNot(x) == IF x = 0 THEN 1 ELSE 0

\* ------------------------------------------------------------------- state
VARIABLES
    btn,          \* the Button object: a record of its fields
    pin,          \* electrical level of the pin, LOW or HIGH
    start,        \* millis() at construction
    elapsed,      \* milliseconds since construction (not wrapped)
    fired,        \* callbacks invoked by the last tick(), in order
    lastOp,       \* the operation that ran last
    hist,         \* history kept for the properties (not program state)
    btn2,         \* a second Button object on the same pin (the comparisons)
    start2,       \* millis() at the construction of the second object
    fired2,       \* callbacks invoked by the second object's last tick()
    reg,          \* the registrations made while the program runs (history)
    call,         \* the tick() call in progress: its position and its locals
    proxy,        \* the SerialProxy object: a record of its fields
    written,      \* the bytes written to the proxy since construction or clear()
    motor,        \* the DCMotor object: a record of its fields
    hw,           \* the levels last written to the motor's pins
    writes,       \* the pin writes of the last motor operation, in order
    sreg,         \* the ShiftRegister object: a record of its fields
    srpins,       \* the levels last written to the shift register's pins
    srwrites      \* the pin writes of the last shift register operation

second == <<btn2, start2, fired2>>
button == <<btn, pin, start, elapsed, fired, lastOp, hist, btn2, start2, fired2, reg, call>>
shifter == <<sreg, srpins, srwrites>>
periph == <<proxy, written, motor, hw, writes, sreg, srpins, srwrites>>
vars == <<btn, pin, start, elapsed, fired, lastOp, hist, btn2, start2, fired2,
          reg, call, proxy, written, motor, hw, writes, sreg, srpins, srwrites>>

\* an empty std::function, and the functions the program registers
NoFunction == 0
Functions == {1, 2}

\* the callback slots, by the name of their setter
SlotNames == {"onPressed", "onDoublePressed", "onLongPressed", "onDown", "onUp"}

\* no tick() call is in progress
NoCall == [pc |-> "idle", reading |-> 0, level |-> 0, now |-> 0,
           promoted |-> FALSE, before |-> << >>]

\* millis() now
Millis == (start + elapsed) % Wrap

\* mutant of NewButton: the debounced state starts as BUTTON_DOWN
NewButton_StartsDown(now, debounce, useInt, pullsToGround, longPress, doublePress) ==
    [ state                      |-> BUTTON_DOWN,
      time_entered_state         |-> now,
      debounce_delay_ms          |-> debounce,
      state_from_interrupt       |-> BUTTON_UP,
      last_debounce_time         |-> 0,
      duration_in_previous_state |-> 0,
      time_of_last_up            |-> 0,
      use_interrupts             |-> useInt,
      btn_pulls_to_ground        |-> pullsToGround,
      long_press_time_ms         |-> longPress,
      double_press_time_ms       |-> doublePress,
      state_handled              |-> TRUE,
      last_press_time            |-> 0,
      debounce_state             |-> BUTTON_UP,
      onPressedCallback          |-> NoFunction,
      onDoublePressedCallback    |-> NoFunction,
      onLongPressedCallback      |-> NoFunction,
      onDownCallback             |-> NoFunction,
      onUpCallback               |-> NoFunction ]

\* Button::Button: the fields after construction at time now
NewButton(now, debounce, useInt, pullsToGround, longPress, doublePress) ==
    [ state                      |-> BUTTON_UP,
      time_entered_state         |-> now,
      debounce_delay_ms          |-> debounce,
      state_from_interrupt       |-> BUTTON_UP,
      last_debounce_time         |-> 0,
      duration_in_previous_state |-> 0,
      time_of_last_up            |-> 0,
      use_interrupts             |-> useInt,
      btn_pulls_to_ground        |-> pullsToGround,
      long_press_time_ms         |-> longPress,
      double_press_time_ms       |-> doublePress,
      state_handled              |-> TRUE,
      last_press_time            |-> 0,
      debounce_state             |-> BUTTON_UP,
      onPressedCallback          |-> NoFunction,
      onDoublePressedCallback    |-> NoFunction,
      onLongPressedCallback      |-> NoFunction,
      onDownCallback             |-> NoFunction,
      onUpCallback               |-> NoFunction ]

\* mutant of OnPressed: a slot that holds a function keeps it
OnPressed_KeepFirst(b, callback) ==
    IF b.onPressedCallback = NoFunction
    THEN [b EXCEPT !.onPressedCallback = callback]
    ELSE b

\* Button::onPressed, onDoublePressed, onLongPressed, onDown, onUp
OnPressed(b, callback) == [b EXCEPT !.onPressedCallback = callback]
OnDoublePressed(b, callback) == [b EXCEPT !.onDoublePressedCallback = callback]
OnLongPressed(b, callback) == [b EXCEPT !.onLongPressedCallback = callback]
OnDown(b, callback) == [b EXCEPT !.onDownCallback = callback]
OnUp(b, callback) == [b EXCEPT !.onUpCallback = callback]

\* the setter of the slot called name
Register(b, name, callback) ==
    CASE name = "onPressed"       -> OnPressed(b, callback)
      [] name = "onDoublePressed" -> OnDoublePressed(b, callback)
      [] name = "onLongPressed"   -> OnLongPressed(b, callback)
      [] name = "onDown"          -> OnDown(b, callback)
      [] name = "onUp"            -> OnUp(b, callback)

\* setup code that registers callback in the slots called names
RECURSIVE RegisterSet(_, _, _)
RegisterSet(b, names, callback) ==
    IF names = {} THEN b
    ELSE LET name == CHOOSE n \in names : TRUE
         IN RegisterSet(Register(b, name, callback), names \ {name}, callback)

\* setup code that registers callback in every slot
RegisterAll(b, callback) == RegisterSet(b, SlotNames, callback)

\* the registrations after setup code registered callback in the slots names:
\* the function registered last in each slot, the slots registered in setup,
\* and the number of registrations made since
SetupOf(names, callback) ==
    [ latest        |-> [n \in SlotNames |-> IF n \in names THEN callback ELSE NoFunction],
      setup         |-> names,
      registrations |-> 0 ]
SetupAll == SetupOf(SlotNames, 1)

\* mutant of HandleOnDown: the handler toggles the level instead of setting it
HandleOnDown_Toggle(b) ==
    [b EXCEPT !.state_from_interrupt = LogicalNot(b.state_from_interrupt)]

\* Button::handleOnDownInterrupt
HandleOnDown(b) ==
    IF b.state_from_interrupt = BUTTON_DOWN
    THEN b
    ELSE [b EXCEPT !.state_from_interrupt = BUTTON_DOWN]

\* mutant of HandleOnUp: the handler also restarts the debounce filter
HandleOnUp_ResetsDebounce(b) ==
    IF b.state_from_interrupt = BUTTON_UP THEN b
    ELSE [b EXCEPT !.state_from_interrupt = BUTTON_UP,
                   !.debounce_state = BUTTON_UP]

\* Button::handleOnUpInterrupt
HandleOnUp(b) ==
    IF b.state_from_interrupt = BUTTON_UP
    THEN b
    ELSE [b EXCEPT !.state_from_interrupt = BUTTON_UP]

\* the level the pin has when the button is pressed
PressedLevel(b) == IF b.btn_pulls_to_ground THEN LOW ELSE HIGH

\* tick(), lines 61-69: the polarity-normalised reading
Reading(b, level) ==
    IF b.use_interrupts
    THEN b.state_from_interrupt
    ELSE IF b.btn_pulls_to_ground THEN LogicalNot(level) ELSE level

\* mutant of Debounce: the candidate changes but the window is not restarted
Debounce_NoRestart(b, reading, now) ==
    IF reading # b.debounce_state
    THEN [b EXCEPT !.debounce_state = reading]
    ELSE b

\* mutant of Debounce: the window restarts at every tick
Debounce_AlwaysRestart(b, reading, now) ==
    [b EXCEPT !.debounce_state = reading, !.last_debounce_time = now]

\* tick(), lines 72-75: the debounce filter restarts on a changed reading
Debounce(b, reading, now) ==
    IF reading # b.debounce_state
    THEN [b EXCEPT !.debounce_state = reading, !.last_debounce_time = now]
    ELSE b

\* mutant of Promotes: the comparison with the debounced state is missing
Promotes_NoStateCheck(b, reading, now) ==
    Sub(now, b.last_debounce_time) > b.debounce_delay_ms

\* mutant of Promotes: the window may be just reached, not exceeded
Promotes_AtBoundary(b, reading, now) ==
    /\ Sub(now, b.last_debounce_time) >= b.debounce_delay_ms
    /\ reading # b.state

\* tick(), lines 77-78: is the reading promoted in this tick?
Promotes(b, reading, now) ==
    /\ Sub(now, b.last_debounce_time) > b.debounce_delay_ms
    /\ reading # b.state

\* mutant of Promote: the duration is measured from the start of the
\* debounce window instead of from the previous promotion
Promote_FromDebounce(b, reading, now) ==
    LET dur == Sub(now, b.last_debounce_time)
        b1  == [b EXCEPT !.duration_in_previous_state = dur,
                         !.time_entered_state = now,
                         !.state = reading,
                         !.state_handled = FALSE]
    IN IF reading = BUTTON_DOWN
       THEN [b1 EXCEPT !.time_of_last_up = Sub(now, dur),
                       !.last_press_time = now]
       ELSE b1

\* mutant of Promote: state_handled is cleared by a promotion to UP only
Promote_HandledOnUpOnly(b, reading, now) ==
    LET dur == Sub(now, b.time_entered_state)
        b1  == [b EXCEPT !.duration_in_previous_state = dur,
                         !.time_entered_state = now,
                         !.state = reading]
    IN IF reading = BUTTON_DOWN
       THEN [b1 EXCEPT !.time_of_last_up = Sub(now, dur),
                       !.last_press_time = now]
       ELSE [b1 EXCEPT !.state_handled = FALSE]

\* tick(), lines 80-87: the fields after a promotion
Promote(b, reading, now) ==
    LET dur == Sub(now, b.time_entered_state)
        b1  == [b EXCEPT !.duration_in_previous_state = dur,
                         !.time_entered_state = now,
                         !.state = reading,
                         !.state_handled = FALSE]
    IN IF reading = BUTTON_DOWN
       THEN [b1 EXCEPT !.time_of_last_up = Sub(now, dur),
                       !.last_press_time = now]
       ELSE b1

\* a callback slot is invoked only when it holds a function
Invoke(slot, name, arg) == IF slot # NoFunction THEN << <<name, arg, slot>> >> ELSE << >>

\* tick(), lines 85-95: the edge callback of a promotion
EdgeCallback(b) ==
    IF b.state = BUTTON_DOWN
    THEN Invoke(b.onDownCallback, "onDown", 0)
    ELSE Invoke(b.onUpCallback, "onUp", 0)

\* tick(), line 100
TimeSinceLastUp(b, now) ==
    IF b.time_of_last_up > 0 THEN Sub(now, b.time_of_last_up) ELSE ULONG_MAX

\* mutant of Classify: the single-press branch forgets to set state_handled
Classify_SingleNotHandled(b, now) ==
    LET tslu == TimeSinceLastUp(b, now)
        dur  == b.duration_in_previous_state
    IN IF ~(~b.state_handled /\ b.state = BUTTON_UP)
       THEN [btn |-> b, fired |-> << >>]
       ELSE IF dur >= b.long_press_time_ms
       THEN [btn   |-> [b EXCEPT !.state_handled = TRUE],
             fired |-> Invoke(b.onLongPressedCallback, "onLongPressed", dur)]
       ELSE IF tslu < b.double_press_time_ms /\ dur > 0
       THEN [btn   |-> [b EXCEPT !.state_handled = TRUE, !.time_of_last_up = 0],
             fired |-> Invoke(b.onDoublePressedCallback, "onDoublePressed", tslu)]
       ELSE IF dur > 0 /\ tslu >= b.double_press_time_ms
       THEN [btn   |-> b,
             fired |-> Invoke(b.onPressedCallback, "onPressed", dur)]
       ELSE [btn |-> b, fired |-> << >>]

\* mutant of Classify: the long-press test is > instead of >=
Classify_LongStrict(b, now) ==
    LET tslu == TimeSinceLastUp(b, now)
        dur  == b.duration_in_previous_state
    IN IF ~(~b.state_handled /\ b.state = BUTTON_UP)
       THEN [btn |-> b, fired |-> << >>]
       ELSE IF dur > b.long_press_time_ms
       THEN [btn   |-> [b EXCEPT !.state_handled = TRUE],
             fired |-> Invoke(b.onLongPressedCallback, "onLongPressed", dur)]
       ELSE IF tslu < b.double_press_time_ms /\ dur > 0
       THEN [btn   |-> [b EXCEPT !.state_handled = TRUE, !.time_of_last_up = 0],
             fired |-> Invoke(b.onDoublePressedCallback, "onDoublePressed", tslu)]
       ELSE IF dur > 0 /\ tslu >= b.double_press_time_ms
       THEN [btn   |-> [b EXCEPT !.state_handled = TRUE],
             fired |-> Invoke(b.onPressedCallback, "onPressed", dur)]
       ELSE [btn |-> b, fired |-> << >>]

\* mutant of Classify: the double-press window includes its end
Classify_DoubleInclusive(b, now) ==
    LET tslu == TimeSinceLastUp(b, now)
        dur  == b.duration_in_previous_state
    IN IF ~(~b.state_handled /\ b.state = BUTTON_UP)
       THEN [btn |-> b, fired |-> << >>]
       ELSE IF dur >= b.long_press_time_ms
       THEN [btn   |-> [b EXCEPT !.state_handled = TRUE],
             fired |-> Invoke(b.onLongPressedCallback, "onLongPressed", dur)]
       ELSE IF tslu <= b.double_press_time_ms /\ dur > 0
       THEN [btn   |-> [b EXCEPT !.state_handled = TRUE, !.time_of_last_up = 0],
             fired |-> Invoke(b.onDoublePressedCallback, "onDoublePressed", tslu)]
       ELSE IF dur > 0 /\ tslu >= b.double_press_time_ms
       THEN [btn   |-> [b EXCEPT !.state_handled = TRUE],
             fired |-> Invoke(b.onPressedCallback, "onPressed", dur)]
       ELSE [btn |-> b, fired |-> << >>]

\* mutant of Classify: the double-press test comes before the long-press test
Classify_DoubleFirst(b, now) ==
    LET tslu == TimeSinceLastUp(b, now)
        dur  == b.duration_in_previous_state
    IN IF ~(~b.state_handled /\ b.state = BUTTON_UP)
       THEN [btn |-> b, fired |-> << >>]
       ELSE IF tslu < b.double_press_time_ms /\ dur > 0
       THEN [btn   |-> [b EXCEPT !.state_handled = TRUE, !.time_of_last_up = 0],
             fired |-> Invoke(b.onDoublePressedCallback, "onDoublePressed", tslu)]
       ELSE IF dur >= b.long_press_time_ms
       THEN [btn   |-> [b EXCEPT !.state_handled = TRUE],
             fired |-> Invoke(b.onLongPressedCallback, "onLongPressed", dur)]
       ELSE IF dur > 0 /\ tslu >= b.double_press_time_ms
       THEN [btn   |-> [b EXCEPT !.state_handled = TRUE],
             fired |-> Invoke(b.onPressedCallback, "onPressed", dur)]
       ELSE [btn |-> b, fired |-> << >>]

\* tick(), lines 99-122: the gesture classifier; the fields and the callback
Classify(b, now) ==
    LET tslu == TimeSinceLastUp(b, now)
        dur  == b.duration_in_previous_state
    IN IF ~(~b.state_handled /\ b.state = BUTTON_UP)
       THEN [btn |-> b, fired |-> << >>]
       ELSE IF dur >= b.long_press_time_ms
       THEN [btn   |-> [b EXCEPT !.state_handled = TRUE],
             fired |-> Invoke(b.onLongPressedCallback, "onLongPressed", dur)]
       ELSE IF tslu < b.double_press_time_ms /\ dur > 0
       THEN [btn   |-> [b EXCEPT !.state_handled = TRUE, !.time_of_last_up = 0],
             fired |-> Invoke(b.onDoublePressedCallback, "onDoublePressed", tslu)]
       ELSE IF dur > 0 /\ tslu >= b.double_press_time_ms
       THEN [btn   |-> [b EXCEPT !.state_handled = TRUE],
             fired |-> Invoke(b.onPressedCallback, "onPressed", dur)]
       ELSE [btn |-> b, fired |-> << >>]

\* mutant of TickOf: the classifier runs before the promotion's edge callback
TickOf_GestureFirst(b, level, now) ==
    LET reading == Reading(b, level)
        b1 == Debounce(b, reading, now)
        p  == Promotes(b1, reading, now)
        b2 == IF p THEN Promote(b1, reading, now) ELSE b1
        e1 == IF p THEN EdgeCallback(b2) ELSE << >>
        c  == Classify(b2, now)
    IN [btn |-> c.btn, fired |-> c.fired \o e1, reading |-> reading, promoted |-> p]

\* Button::tick at time now with the pin at level: the fields and the callbacks
TickOf(b, level, now) ==
    LET reading == Reading(b, level)
        b1 == Debounce(b, reading, now)
        p  == Promotes(b1, reading, now)
        b2 == IF p THEN Promote(b1, reading, now) ELSE b1
        e1 == IF p THEN EdgeCallback(b2) ELSE << >>
        c  == Classify(b2, now)
    IN [btn |-> c.btn, fired |-> e1 \o c.fired, reading |-> reading, promoted |-> p]

\* Button::getTimeInLastState
GetTimeInLastState(b) == b.duration_in_previous_state

\* Button::getTimeInCurrentState at time now
GetTimeInCurrentState(b, now) == Sub(now, b.time_entered_state)

\* Button::isDown, Button::isUp
IsDown(b) == b.state = BUTTON_DOWN
IsUp(b) == b.state = BUTTON_UP


\* ---------------------------------------------------------------- history
IsEdge(e) == e[1] \in {"onDown", "onUp"}
IsGesture(e) == e[1] \in {"onPressed", "onDoublePressed", "onLongPressed"}
EdgeEvents(f) == SelectSeq(f, IsEdge)
GestureEvents(f) == SelectSeq(f, IsGesture)

NamesAndArgs(f) == [i \in 1..Len(f) |-> <<f[i][1], f[i][2]>>]

NoHistory ==
    [ runLevel   |-> -1,     \* reading sampled by the last tick (-1: no tick yet)
      runStart   |-> 0,      \* elapsed time of the first tick of the current run of equal readings
      suppressed |-> FALSE,  \* a candidate level was abandoned before its promotion
      lastEdge   |-> "none", \* the edge callback invoked last
      gestures   |-> 0,      \* gesture callbacks invoked since the last promotion to DOWN
      cycles     |-> 0,      \* promotions to UP so far
      downAt     |-> -1,     \* elapsed time of the last promotion to DOWN
      upAt       |-> -1,     \* elapsed time of the last promotion to UP
      prevUpAt   |-> -1,     \* elapsed time of the promotion to UP before that
      hold       |-> -1,     \* time between the last promotions to DOWN and to UP
      prevHold   |-> -1,     \* the same for the cycle before
      redelivered |-> FALSE, \* the last operation delivered the same edge handler again
      gest       |-> << >>,  \* gesture callbacks of the cycle completed last, <<name, argument>>
      prevGest   |-> << >> ] \* gesture callbacks of the cycle before

\* the history after a tick at elapsed time t that took the object from b to r.btn
HistAfterTick(h, b, r, t) ==
    LET toDown == r.promoted /\ r.btn.state = BUTTON_DOWN
        toUp   == r.promoted /\ r.btn.state = BUTTON_UP
        edges  == EdgeEvents(r.fired)
    IN [ runLevel   |-> r.reading,
         runStart   |-> IF r.reading # h.runLevel THEN t ELSE h.runStart,
         suppressed |-> h.suppressed
                        \/ (r.reading = b.state /\ b.debounce_state # b.state),
         lastEdge   |-> IF Len(edges) > 0 THEN edges[Len(edges)][1] ELSE h.lastEdge,
         gestures   |-> (IF toDown THEN 0 ELSE h.gestures) + Len(GestureEvents(r.fired)),
         cycles     |-> h.cycles + (IF toUp THEN 1 ELSE 0),
         downAt     |-> IF toDown THEN t ELSE h.downAt,
         upAt       |-> IF toUp THEN t ELSE h.upAt,
         prevUpAt   |-> IF toUp THEN h.upAt ELSE h.prevUpAt,
         hold       |-> IF toUp THEN t - h.downAt ELSE h.hold,
         prevHold   |-> IF toUp THEN h.hold ELSE h.prevHold,
         redelivered |-> FALSE,
         gest       |-> (IF toUp THEN << >> ELSE h.gest) \o NamesAndArgs(GestureEvents(r.fired)),
         prevGest   |-> IF toUp THEN h.gest ELSE h.prevGest ]

\* ------------------------------------------------------------ SerialProxy
\* (src/src/serial_proxy.hpp) The ring buffer buf_ is a sequence of buf_size_
\* bytes, C index i at position i + 1; a failed allocation (nullptr) is << >>.

\* largest capacity handed to the constructor
MaxCap == 5
\* most bytes written between two clear() calls
MaxWritten == 6
\* longest buffer handed to one write(buffer, size)
MaxChunk == 2
\* largest argument of tail()
MaxLines == 2

\* '\n'
NL == 10
\* the bytes written: newline, 'a', 'b'
Bytes == {NL, 97, 98}

Zeros(n) == [i \in 1..n |-> 0]

\* SerialProxy::SerialProxy(buf_size); allocated: new (std::nothrow) succeeded
NewSerialProxy(buf_size, allocated) ==
    LET size == IF buf_size = 0 THEN 1 ELSE buf_size
    IN [ buf_size_ |-> size,
         head_     |-> 0,
         full_     |-> FALSE,
         buf_      |-> IF allocated THEN Zeros(size) ELSE << >> ]

\* mutant of AppendByte: the wrap is not recorded in full_
AppendByte_NeverFull(p, c) ==
    IF p.buf_ = << >> THEN p
    ELSE [p EXCEPT !.buf_[p.head_ + 1] = c,
                   !.head_ = (p.head_ + 1) % p.buf_size_]

\* SerialProxy::appendByte
AppendByte(p, c) ==
    IF p.buf_ = << >> THEN p
    ELSE LET h == (p.head_ + 1) % p.buf_size_
         IN [p EXCEPT !.buf_[p.head_ + 1] = c,
                      !.head_ = h,
                      !.full_ = (h = 0) \/ p.full_]

\* SerialProxy::appendBuffer
RECURSIVE AppendBuffer(_, _)
AppendBuffer(p, data) ==
    IF p.buf_ = << >> \/ Len(data) = 0 THEN p
    ELSE AppendBuffer(AppendByte(p, Head(data)), Tail(data))

\* SerialProxy::clear
ClearOf(p) ==
    [p EXCEPT !.head_ = 0,
              !.full_ = FALSE,
              !.buf_ = IF p.buf_ = << >> THEN << >> ELSE Zeros(p.buf_size_)]

\* SerialProxy::size, capacity, wrapped
Size(p) == IF p.full_ THEN p.buf_size_ ELSE p.head_
Capacity(p) == p.buf_size_
Wrapped(p) == p.full_

Reverse(q) == [i \in 1..Len(q) |-> q[Len(q) + 1 - i]]

\* SerialProxy::tail, lines 139-156: the backward scan from index idx with
\* count newlines seen and out collected so far
RECURSIVE TailLoop(_, _, _, _, _)
TailLoop(p, lines, idx, count, out) ==
    LET ch     == p.buf_[idx + 1]
        out1   == Append(out, ch)
        count1 == IF ch = NL THEN count + 1 ELSE count
    IN IF ch = NL /\ count1 = lines THEN out1
       ELSE IF idx = 0
       THEN IF ~p.full_ THEN out1
            ELSE IF p.buf_size_ - 1 = p.head_ THEN out1
            ELSE TailLoop(p, lines, p.buf_size_ - 1, count1, out1)
       ELSE IF ~p.full_ /\ idx - 1 >= p.head_ THEN out1
            ELSE IF p.full_ /\ idx - 1 = p.head_ THEN out1
            ELSE TailLoop(p, lines, idx - 1, count1, out1)

\* SerialProxy::tail
TailOf(p, lines) ==
    IF p.buf_ = << >> \/ lines = 0 THEN << >>
    ELSE LET stored == IF p.full_ THEN p.buf_size_ ELSE p.head_
         IN IF stored = 0 THEN << >>
            ELSE Reverse(TailLoop(p, lines,
                                  IF p.head_ = 0 THEN stored - 1 ELSE p.head_ - 1,
                                  0, << >>))

\* ---------------------------------------------------------------- DCMotor
\* (src/src/dc_motor.cpp) The object is a record of speed_, last_pwm_ and
\* last_dir_; hw holds the level of IN1 and IN2 and the PWM value of EN.

\* the general speeds handed to setSpeed are -MotorSpeeds..MotorSpeeds
MotorSpeeds == 20

kMaxSpeed == 255

\* mutant of Constrain: the value is passed through
Constrain_None(val, min, max) == val

\* the constrain macro (definitions.h)
Constrain(val, min, max) ==
    IF val < min THEN min ELSE IF val > max THEN max ELSE val

\* static_cast<uint8_t>
ToUint8(x) == x % 256

\* DCMotor::DCMotor: the fields, and the pins after the constructor's writes
NewMotor == [speed_ |-> 0, last_pwm_ |-> 0, last_dir_ |-> 0]
NewPins == [in1 |-> LOW, in2 |-> LOW, en |-> 0]

\* DCMotor::getSpeed, getMagnitude, getDirection
GetSpeed(m) == m.speed_
GetMagnitude(m) == ToUint8(IF m.speed_ < 0 THEN -m.speed_ ELSE m.speed_)
GetDirection(m) == IF m.speed_ > 0 THEN 1 ELSE IF m.speed_ < 0 THEN -1 ELSE 0

\* mutant of ApplyPinsForSpeed: the direction pins are written on every call
ApplyPinsForSpeed_AlwaysDir(m, h, new_speed, forcePins) ==
    LET dir == IF new_speed > 0 THEN 1 ELSE IF new_speed < 0 THEN -1 ELSE 0
        l1  == IF dir > 0 THEN HIGH ELSE LOW
        l2  == IF dir < 0 THEN HIGH ELSE LOW
        pwm == ToUint8(IF new_speed < 0 THEN -new_speed ELSE new_speed)
        wEn == pwm # m.last_pwm_
    IN [ motor  |-> [speed_ |-> new_speed, last_pwm_ |-> pwm, last_dir_ |-> dir],
         hw     |-> [in1 |-> l1, in2 |-> l2, en |-> IF wEn THEN pwm ELSE h.en],
         writes |-> << <<"in1", l1>>, <<"in2", l2>> >>
                    \o (IF wEn THEN << <<"en", pwm>> >> ELSE << >>) ]

\* DCMotor::applyPinsForSpeed: the fields, the pins and the writes performed
ApplyPinsForSpeed(m, h, new_speed, forcePins) ==
    LET dir == IF new_speed > 0 THEN 1 ELSE IF new_speed < 0 THEN -1 ELSE 0
        wDir == forcePins \/ dir # m.last_dir_
        l1  == IF dir > 0 THEN HIGH ELSE LOW
        l2  == IF dir < 0 THEN HIGH ELSE LOW
        pwm == ToUint8(IF new_speed < 0 THEN -new_speed ELSE new_speed)
        wEn == pwm # m.last_pwm_
    IN [ motor  |-> [speed_    |-> new_speed,
                     last_pwm_ |-> IF wEn THEN pwm ELSE m.last_pwm_,
                     last_dir_ |-> IF wDir THEN dir ELSE m.last_dir_],
         hw     |-> [in1 |-> IF wDir THEN l1 ELSE h.in1,
                     in2 |-> IF wDir THEN l2 ELSE h.in2,
                     en  |-> IF wEn THEN pwm ELSE h.en],
         writes |-> (IF wDir THEN << <<"in1", l1>>, <<"in2", l2>> >> ELSE << >>)
                    \o (IF wEn THEN << <<"en", pwm>> >> ELSE << >>) ]

\* DCMotor::setSpeed
SetSpeedOf(m, h, speed) ==
    LET constrained == Constrain(speed, -kMaxSpeed, kMaxSpeed)
    IN IF constrained = m.speed_
       THEN [motor |-> m, hw |-> h, writes |-> << >>]
       ELSE ApplyPinsForSpeed(m, h, constrained, FALSE)

\* DCMotor::stop
StopOf(m, h) == ApplyPinsForSpeed(m, h, 0, TRUE)

\* DCMotor::brake
BrakeOf(m, h) ==
    [ motor  |-> [speed_ |-> 0, last_pwm_ |-> 0, last_dir_ |-> 0],
      hw     |-> [in1 |-> HIGH, in2 |-> HIGH, en |-> 0],
      writes |-> << <<"in1", HIGH>>, <<"in2", HIGH>>, <<"en", 0>> >> ]

\* ---------------------------------------------------------- ShiftRegister
\* (src/src/shift_register.cpp) The object is a record of its fields. val, a
\* uint64_t, is held as the set of the positions of its 1 bits, so that |, &
\* and ~ are union, intersection and complement within Word; srpins maps
\* each of the three pins to the level last written to it.

\* the indices handed to set(): IndexSpan of them from bit 0 up, IndexSpan on
\* each side of getNumBits(), and the largest uint8_t
IndexSpan == 2

\* the bit positions of a uint64_t
Word == 0..63

\* 1ULL << index, for an index below 64
Mask(index) == {index}

\* (1ULL << num_bits) - 1, for num_bits below 64
LowBits(num_bits) == 0..(num_bits - 1)

\* ShiftRegister::ShiftRegister: the fields
NewShiftRegister(data_pin, clock_pin, latch_pin, num_registers) ==
    [ data_pin  |-> data_pin,
      clock_pin |-> clock_pin,
      latch_pin |-> latch_pin,
      num_bits  |-> ToUint8(Constrain(num_registers, 1, 8) * 8),
      val       |-> {},
      dirty     |-> FALSE ]

\* ShiftRegister::ShiftRegister: the pins after the constructor's writes
NewShiftPins(s) == [p \in {s.data_pin, s.clock_pin, s.latch_pin} |-> LOW]

\* digitalWrite, for each write of ws in order: a pin keeps the level of the
\* last write made to it, found d places before the end of ws
DigitalWrite(h, ws) ==
    [p \in DOMAIN h |->
        LET n == Len(ws)
        IN IF \A k \in 1..n : ws[k][1] # p
           THEN h[p]
           ELSE ws[n - (CHOOSE d \in 0..(n - 1) :
                           /\ ws[n - d][1] = p
                           /\ \A e \in 0..(d - 1) : ws[n - e][1] # p)][2]]

\* ShiftRegister::update, the writes of the loop: iteration i lowers the
\* clock, puts bit num_bits - 1 - i on the data pin and raises the clock
ShiftOut(s) ==
    [k \in 1..(3 * s.num_bits) |->
        LET i == (k - 1) \div 3
            step == (k - 1) % 3
        IN IF step = 0 THEN <<s.clock_pin, LOW>>
           ELSE IF step = 2 THEN <<s.clock_pin, HIGH>>
           ELSE <<s.data_pin,
                  IF (s.val \cap Mask(s.num_bits - 1 - i)) # {} THEN HIGH ELSE LOW>>]

\* ShiftRegister::update: the fields, the pins and the writes performed
Update(s, h) ==
    LET ws == << <<s.latch_pin, LOW>> >> \o ShiftOut(s)
                 \o << <<s.data_pin, LOW>>, <<s.latch_pin, HIGH>> >>
    IN [ sreg   |-> [s EXCEPT !.dirty = FALSE],
         pins   |-> DigitalWrite(h, ws),
         writes |-> ws ]

\* mutant of SetOf: the index equal to the number of bits is accepted
SetOf_BoundInclusive(s, h, index, value, update) ==
    IF index > s.num_bits
    THEN [sreg |-> s, pins |-> h, writes |-> << >>, ret |-> FALSE]
    ELSE LET mask == Mask(index)
             t == [s EXCEPT !.val = IF value THEN s.val \cup mask
                                              ELSE s.val \cap (Word \ mask),
                            !.dirty = TRUE]
             u == Update(t, h)
         IN IF update
            THEN [sreg |-> u.sreg, pins |-> u.pins, writes |-> u.writes, ret |-> TRUE]
            ELSE [sreg |-> t, pins |-> h, writes |-> << >>, ret |-> TRUE]

\* ShiftRegister::set: the fields, the pins, the writes and the value returned
SetOf(s, h, index, value, update) ==
    IF index >= s.num_bits
    THEN [sreg |-> s, pins |-> h, writes |-> << >>, ret |-> FALSE]
    ELSE LET mask == Mask(index)
             t == [s EXCEPT !.val = IF value THEN s.val \cup mask
                                              ELSE s.val \cap (Word \ mask),
                            !.dirty = TRUE]
             u == Update(t, h)
         IN IF update
            THEN [sreg |-> u.sreg, pins |-> u.pins, writes |-> u.writes, ret |-> TRUE]
            ELSE [sreg |-> t, pins |-> h, writes |-> << >>, ret |-> TRUE]

\* ShiftRegister::setAll
SetAllOf(s, h, value) ==
    LET all == IF s.num_bits = 64 THEN Word ELSE LowBits(s.num_bits)
    IN Update([s EXCEPT !.val = IF value THEN all ELSE {}, !.dirty = TRUE], h)

\* ShiftRegister::clear
ClearRegisterOf(s, h) == SetAllOf(s, h, FALSE)

\* ShiftRegister::push_updates
PushUpdatesOf(s, h, force) ==
    IF ~s.dirty /\ ~force
    THEN [sreg |-> s, pins |-> h, writes |-> << >>]
    ELSE Update(s, h)

\* ShiftRegister::get
Get(s, index) ==
    IF index >= s.num_bits THEN FALSE ELSE (s.val \cap Mask(index)) # {}

\* ShiftRegister::getNumBits, getNumRegisters, getValue, isDirty
GetNumBits(s) == s.num_bits
GetNumRegisters(s) == s.num_bits \div 8
GetValue(s) == s.val
IsDirty(s) == s.dirty

\* the shift register of a program that uses one register on pins 2, 3 and 4
IdleShiftRegister == NewShiftRegister(2, 3, 4, 1)

\* the peripherals while a specification of the button runs
PeriphIdle ==
    /\ proxy = NewSerialProxy(1, FALSE)
    /\ written = << >>
    /\ motor = NewMotor
    /\ hw = NewPins
    /\ writes = << >>
    /\ sreg = IdleShiftRegister
    /\ srpins = NewShiftPins(sreg)
    /\ srwrites = << >>

\* ----------------------------------------------------------------- actions
\* millis() values at which the general specification constructs the object:
\* 0, and a time that puts the first possible promotion to UP on timestamp 0
StartTimes == {0, Wrap - 2 * (CfgDebounce + 1)}

Init ==
    /\ start \in StartTimes
    /\ elapsed = 0
    /\ pin \in {LOW, HIGH}
    /\ \E useInt \in BOOLEAN, pulls \in BOOLEAN :
          btn = RegisterAll(NewButton(start, CfgDebounce, useInt, pulls, CfgLongPress, CfgDoublePress), 1)
    /\ fired = << >>
    /\ lastOp = "init"
    /\ hist = NoHistory
    /\ btn2 = btn
    /\ start2 = start
    /\ fired2 = << >>
    /\ PeriphIdle
    /\ reg = SetupAll
    /\ call = NoCall

\* dt milliseconds pass and the main loop calls tick()
Tick(dt, horizon) ==
    /\ elapsed + dt <= horizon
    /\ LET r == TickOf(btn, pin, (start + elapsed + dt) % Wrap)
       IN /\ btn' = r.btn
          /\ fired' = r.fired
          /\ hist' = HistAfterTick(hist, btn, r, elapsed + dt)
    /\ elapsed' = elapsed + dt
    /\ lastOp' = "tick"
    /\ UNCHANGED <<pin, start, second, periph, reg, call>>

\* Button::Button, lines 28-35: the handler attached to an edge that takes the
\* pin to level
AttachedHandler(b, level) ==
    IF ~b.use_interrupts THEN "none"
    ELSE IF level = PressedLevel(b) THEN "handleOnDown" ELSE "handleOnUp"

\* the object after an edge that takes the pin to level
Notify(b, level) ==
    LET h == AttachedHandler(b, level)
    IN IF h = "handleOnDown" THEN HandleOnDown(b)
       ELSE IF h = "handleOnUp" THEN HandleOnUp(b)
       ELSE b

\* the pin changes level; in interrupt mode the attached handler runs
PinEdge ==
    /\ pin' = LogicalNot(pin)
    /\ LET h == AttachedHandler(btn, pin')
       IN /\ btn' = Notify(btn, pin')
          /\ lastOp' = IF h = "none" THEN "edge" ELSE h
          /\ hist' = [hist EXCEPT !.redelivered = (h # "none" /\ lastOp = h)]
    /\ fired' = << >>
    /\ UNCHANGED <<start, elapsed, second, periph, reg, call>>

\* the down handler is delivered again without a level change
HandleOnDownInterrupt ==
    /\ btn.use_interrupts
    /\ btn' = HandleOnDown(btn)
    /\ lastOp' = "handleOnDown"
    /\ hist' = [hist EXCEPT !.redelivered = (lastOp = "handleOnDown")]
    /\ fired' = << >>
    /\ UNCHANGED <<pin, start, elapsed, second, periph, reg, call>>

\* the up handler is delivered again without a level change
HandleOnUpInterrupt ==
    /\ btn.use_interrupts
    /\ btn' = HandleOnUp(btn)
    /\ lastOp' = "handleOnUp"
    /\ hist' = [hist EXCEPT !.redelivered = (lastOp = "handleOnUp")]
    /\ fired' = << >>
    /\ UNCHANGED <<pin, start, elapsed, second, periph, reg, call>>

Next ==
    \/ \E dt \in 0..MaxStep : Tick(dt, MaxElapsed)
    \/ PinEdge
    \/ HandleOnDownInterrupt
    \/ HandleOnUpInterrupt

Spec == Init /\ [][Next]_vars

\* The scenarios of the default configuration (button.h, line 47): an
\* active-low button in interrupt mode, debounce 25, long press 800, double
\* press 300, released at construction.
ScenarioStarts == {0, 500}
\* the times after construction at which the scenarios call tick(): they allow
\* a press promoted at 326, released after 100 ms (426), pressed again 50 ms
\* later (476), released again (576), or left alone for 300 ms (726), and a
\* press held for 799, 800 or 900 ms (1125, 1126, 1226)
ScenarioTimes ==
    {300, 326, 400, 426, 450, 476, 550, 576, 726, 1099, 1100, 1125, 1126, 1200, 1226}

InitScenario ==
    /\ start \in ScenarioStarts
    /\ elapsed = 0
    /\ pin = HIGH
    /\ btn = RegisterAll(NewButton(start, DefaultDebounce, TRUE, TRUE,
                       DefaultLongPress, DefaultDoublePress), 1)
    /\ fired = << >>
    /\ lastOp = "init"
    /\ hist = NoHistory
    /\ btn2 = btn
    /\ start2 = start
    /\ fired2 = << >>
    /\ PeriphIdle
    /\ reg = SetupAll
    /\ call = NoCall

NextScenario ==
    \/ \E t \in ScenarioTimes : t > elapsed /\ Tick(t - elapsed, t)
    \/ PinEdge

SpecScenario == InitScenario /\ [][NextScenario]_vars


\* ------------------------------------------------------------- properties
\* C1: a tick changes the debounced state, or invokes on-down or on-up, only
\* if every reading sampled since the current run of equal readings began
\* equals the new state and that run is older than debounce_delay_ms.
C1_DebounceSuppression ==
    [][(btn'.state # btn.state \/ Len(EdgeEvents(fired')) > 0) =>
          /\ hist'.runLevel = btn'.state
          /\ elapsed' - hist'.runStart > btn.debounce_delay_ms]_vars

\* a candidate level was abandoned (the reading bounced back) and a later
\* candidate was promoted
C1_Witness == hist.suppressed /\ hist.cycles >= 1

\* C2: a tick invokes an edge callback exactly when it changes the debounced
\* state, exactly one, and on-down and on-up alternate beginning with on-down.
C2_EdgeAlternation ==
    [][/\ Len(EdgeEvents(fired')) = (IF btn'.state # btn.state THEN 1 ELSE 0)
       /\ btn'.state # btn.state =>
             EdgeEvents(fired')[1][1] =
                (IF hist.lastEdge = "onDown" THEN "onUp" ELSE "onDown")]_vars

\* two full press-release cycles were promoted
C2_Witness == hist.cycles >= 2 /\ hist.lastEdge = "onUp"

\* C3: every completed press-release cycle has fired exactly one gesture
\* callback, and none is fired while the button is down.
C3_GestureExclusive ==
    /\ hist.gestures <= 1
    /\ (btn.state = BUTTON_UP /\ hist.cycles >= 1) => hist.gestures = 1
    /\ btn.state = BUTTON_DOWN => hist.gestures = 0

\* a cycle completed and tick() ran again later in the same released period
C3_Witness ==
    /\ hist.cycles >= 1 /\ btn.state = BUTTON_UP
    /\ elapsed > hist.upAt /\ lastOp = "tick" /\ hist.gestures = 1


\* the names of the gesture callbacks the last operation invoked
GestureNames(f) == [i \in 1..Len(GestureEvents(f)) |-> GestureEvents(f)[i][1]]

\* the last operation was a tick that promoted the state to UP
PromotedUp == Len(EdgeEvents(fired)) = 1 /\ EdgeEvents(fired)[1][1] = "onUp"

\* C4: on-pressed is never invoked before double_press_time_ms has passed
\* since the release it classifies.
C4_SinglePressDeferred ==
    \A i \in 1..Len(fired) :
        fired[i][1] = "onPressed" =>
            elapsed - hist.upAt >= btn.double_press_time_ms

\* C6: at a release whose hold and whose predecessor's hold are shorter than
\* the long-press threshold, the gesture is a double-press when the time
\* since the previous promotion to UP is below double_press_time_ms and a
\* single press otherwise.
C6_DoublePressWindow ==
    (/\ PromotedUp
     /\ hist.prevUpAt >= 0
     /\ hist.hold < btn.long_press_time_ms
     /\ hist.prevHold < btn.long_press_time_ms)
    => GestureNames(fired) =
          (IF hist.upAt - hist.prevUpAt < btn.double_press_time_ms
           THEN <<"onDoublePressed">> ELSE <<"onPressed">>)

\* C7: a release after a hold of at least long_press_time_ms invokes
\* on-long-pressed with the hold and no other gesture; on-long-pressed is
\* never invoked after a shorter hold.
C7_LongPressThreshold ==
    /\ (PromotedUp /\ hist.hold >= btn.long_press_time_ms) =>
          GestureEvents(fired) =
             << <<"onLongPressed", hist.hold, btn.onLongPressedCallback>> >>
    /\ \A i \in 1..Len(fired) :
          fired[i][1] = "onLongPressed" => hist.hold >= btn.long_press_time_ms

\* a hold of exactly long_press_time_ms was classified as a long press
C7_Witness ==
    /\ PromotedUp /\ hist.hold = btn.long_press_time_ms
    /\ GestureNames(fired) = <<"onLongPressed">>

\* C9: a second delivery in a row of the same edge handler changes no field
\* of the object, so the object is in the state one delivery leaves it in.
C9_IdempotentNotify ==
    [][hist'.redelivered => btn' = btn]_vars

\* the same handler was delivered twice in a row
C9_Witness == hist.redelivered

\* C12: on-pressed and on-long-pressed are invoked with the time between the
\* promotion to DOWN and the promotion back to UP, which is what
\* getTimeInLastState() returns at the call.
C12_CallbackArgIsHold ==
    \A i \in 1..Len(fired) :
        fired[i][1] \in {"onPressed", "onLongPressed"} =>
            /\ fired[i][2] = hist.hold
            /\ fired[i][2] = GetTimeInLastState(btn)

\* on-pressed was invoked for a hold that began later than the debounce
\* window of its release
C12_Witness ==
    /\ Len(GestureEvents(fired)) = 1
    /\ GestureEvents(fired)[1][1] = "onPressed"
    /\ GestureEvents(fired)[1][2] = hist.hold
    /\ hist.hold > btn.debounce_delay_ms + 1

\* C13: the debounced state is BUTTON_UP or BUTTON_DOWN, isDown() is the
\* negation of isUp(), the state is UP until the first promotion, and no
\* gesture callback is invoked before the first promotion to UP.
C13_StateDomain ==
    /\ btn.state \in {BUTTON_UP, BUTTON_DOWN}
    /\ IsDown(btn) = ~IsUp(btn)
    /\ (hist.downAt = -1 => IsUp(btn))
    /\ (hist.cycles = 0 => hist.gestures = 0 /\ GestureEvents(fired) = << >>)

\* a tick sampled the pressed level and nothing has been promoted yet
C13_Witness ==
    /\ hist.downAt = -1 /\ hist.cycles = 0
    /\ lastOp = "tick" /\ hist.runLevel = BUTTON_DOWN
    /\ IsUp(btn) /\ ~IsDown(btn)

\* C19: a tick promotes its reading exactly when the reading differs from
\* the debounced state and has been sampled for strictly more than
\* debounce_delay_ms; a tick whose reading differs from debounce_state
\* restarts the window at its own time.
C19_DebounceBoundary ==
    [][lastOp' = "tick" =>
          LET reading == hist'.runLevel
              now     == (start + elapsed') % Wrap
          IN /\ (reading # btn.debounce_state => btn'.last_debounce_time = now)
             /\ (btn'.state # btn.state) =
                   (/\ reading # btn.state
                    /\ elapsed' - hist'.runStart > btn.debounce_delay_ms)]_vars

\* a tick at exactly debounce_delay_ms after the start of the window of a
\* reading that differs from the debounced state did not promote it
C19_Witness ==
    /\ lastOp = "tick"
    /\ hist.runLevel # btn.state
    /\ elapsed - hist.runStart = btn.debounce_delay_ms
    /\ btn.debounce_delay_ms > 0

\* C20: on-double-pressed is invoked only at a release that follows an
\* earlier completed press-release cycle, never in the first cycle after
\* construction.
C20_FirstCycleNotDouble ==
    \A i \in 1..Len(fired) :
        fired[i][1] = "onDoublePressed" => hist.cycles >= 2


\* Two objects on one pin, ticked together.
\* dt milliseconds pass and the main loop calls tick() on both objects
TickBoth(dt, horizon) ==
    /\ elapsed + dt <= horizon
    /\ LET r  == TickOf(btn, pin, (start + elapsed + dt) % Wrap)
           r2 == TickOf(btn2, pin, (start2 + elapsed + dt) % Wrap)
       IN /\ btn' = r.btn
          /\ fired' = r.fired
          /\ hist' = HistAfterTick(hist, btn, r, elapsed + dt)
          /\ btn2' = r2.btn
          /\ fired2' = r2.fired
    /\ elapsed' = elapsed + dt
    /\ lastOp' = "tick"
    /\ UNCHANGED <<pin, start, start2, periph, reg, call>>

\* the pin changes level; each object in interrupt mode runs its handler
PinEdgeBoth ==
    /\ pin' = LogicalNot(pin)
    /\ btn' = Notify(btn, pin')
    /\ btn2' = Notify(btn2, pin')
    /\ lastOp' = "edge"
    /\ fired' = << >>
    /\ fired2' = << >>
    /\ UNCHANGED <<start, start2, elapsed, hist, periph, reg, call>>

NextBoth ==
    \/ \E dt \in 0..MaxStep : TickBoth(dt, MaxElapsed)
    \/ PinEdgeBoth

\* the same pin read by an object in interrupt mode and one in polled mode
InitModes ==
    /\ start \in StartTimes
    /\ start2 = start
    /\ elapsed = 0
    /\ pin \in {LOW, HIGH}
    /\ \E pulls \in BOOLEAN :
          /\ btn = RegisterAll(NewButton(start, CfgDebounce, TRUE, pulls,
                             CfgLongPress, CfgDoublePress), 1)
          /\ btn2 = RegisterAll(NewButton(start, CfgDebounce, FALSE, pulls,
                              CfgLongPress, CfgDoublePress), 1)
    /\ fired = << >>
    /\ fired2 = << >>
    /\ lastOp = "init"
    /\ hist = NoHistory
    /\ PeriphIdle
    /\ reg = SetupAll
    /\ call = NoCall

SpecModes == InitModes /\ [][NextBoth]_vars

\* the same history seen by two objects whose clocks differ by a constant
Shifts == {1, Wrap - 2 * (CfgDebounce + 1), Wrap - 2 * (CfgDebounce + 1) - 1}

InitShift ==
    /\ start \in {0, 1}
    /\ \E shift \in Shifts : start2 = (start + shift) % Wrap
    /\ elapsed = 0
    /\ pin \in {LOW, HIGH}
    /\ \E useInt \in BOOLEAN :
          /\ btn = RegisterAll(NewButton(start, CfgDebounce, useInt, TRUE,
                             CfgLongPress, CfgDoublePress), 1)
          /\ btn2 = RegisterAll(NewButton(start2, CfgDebounce, useInt, TRUE,
                              CfgLongPress, CfgDoublePress), 1)
    /\ fired = << >>
    /\ fired2 = << >>
    /\ lastOp = "init"
    /\ hist = NoHistory
    /\ PeriphIdle
    /\ reg = SetupAll
    /\ call = NoCall

SpecShift == InitShift /\ [][NextBoth]_vars

\* C8: an object in interrupt mode and an object in polled mode on the same
\* pin, ticked at the same times, are in the same debounced state and invoke
\* the same callbacks with the same arguments.
C8_ModeEquivalence ==
    /\ btn.state = btn2.state
    /\ fired = fired2

\* C10: two objects that see the same history with clocks that differ by a
\* constant invoke the same callbacks with the same arguments and report the
\* same getTimeInLastState() and getTimeInCurrentState().
C10_ShiftInvariance ==
    /\ fired = fired2
    /\ GetTimeInLastState(btn) = GetTimeInLastState(btn2)
    /\ GetTimeInCurrentState(btn, (start + elapsed) % Wrap)
          = GetTimeInCurrentState(btn2, (start2 + elapsed) % Wrap)

\* the default configuration
IsDefaultConfig(b) ==
    /\ b.debounce_delay_ms = DefaultDebounce
    /\ b.long_press_time_ms = DefaultLongPress
    /\ b.double_press_time_ms = DefaultDoublePress

\* C5: with the default configuration, after a 100 ms press, a second press
\* promoted 50 ms after the first release and a second release, the first
\* cycle has fired no gesture callback and the second has fired exactly
\* on-double-pressed, with the 50 ms gap (to within the debounce window).
C5_DoublePressScenario ==
    (/\ IsDefaultConfig(btn)
     /\ hist.cycles = 2
     /\ hist.prevHold = 100
     /\ hist.downAt - hist.prevUpAt = 50)
    => /\ hist.prevGest = << >>
       /\ Len(hist.gest) = 1
       /\ hist.gest[1][1] = "onDoublePressed"
       /\ hist.gest[1][2] >= 50 - DefaultDebounce
       /\ hist.gest[1][2] <= 50 + DefaultDebounce

\* Two objects on one pin that differ in their callback slots only: btn has
\* function 1 in every slot, btn2 has it in the slots its setup code chose and
\* is given other functions while it runs.

\* the horizon of the histories with registrations
MaxElapsedReg == 6
\* the registrations made after setup
MaxRegistrations == 1

InitCallbacks ==
    /\ start = Wrap - 2 * (CfgDebounce + 1)
    /\ start2 = start
    /\ elapsed = 0
    /\ pin = HIGH
    /\ btn = RegisterAll(NewButton(start, CfgDebounce, FALSE, TRUE,
                                   CfgLongPress, CfgDoublePress), 1)
    /\ \E names \in SUBSET SlotNames :
          /\ btn2 = RegisterSet(NewButton(start, CfgDebounce, FALSE, TRUE,
                                          CfgLongPress, CfgDoublePress), names, 1)
          /\ reg = SetupOf(names, 1)
    /\ call = NoCall
    /\ fired = << >>
    /\ fired2 = << >>
    /\ lastOp = "init"
    /\ hist = NoHistory
    /\ PeriphIdle

\* the program calls the setter of the slot called name on the second object
SetCallback(name) ==
    /\ reg.registrations < MaxRegistrations
    /\ \E callback \in Functions :
          /\ btn2' = Register(btn2, name, callback)
          /\ reg' = [reg EXCEPT !.latest[name] = callback,
                                !.registrations = @ + 1]
    /\ lastOp' = "register"
    /\ fired' = << >>
    /\ fired2' = << >>
    /\ UNCHANGED <<btn, pin, start, start2, elapsed, hist, periph, call>>

OnPressedCall == SetCallback("onPressed")
OnDoublePressedCall == SetCallback("onDoublePressed")
OnLongPressedCall == SetCallback("onLongPressed")
OnDownCall == SetCallback("onDown")
OnUpCall == SetCallback("onUp")

NextCallbacks ==
    \/ \E dt \in 0..MaxStep : TickBoth(dt, MaxElapsedReg)
    \/ PinEdgeBoth
    \/ OnPressedCall
    \/ OnDoublePressedCall
    \/ OnLongPressedCall
    \/ OnDownCall
    \/ OnUpCall

SpecCallbacks == InitCallbacks /\ [][NextCallbacks]_vars

\* the fields of the object other than its callback slots
EngineFields ==
    {"state", "time_entered_state", "debounce_delay_ms", "state_from_interrupt",
     "last_debounce_time", "duration_in_previous_state", "time_of_last_up",
     "use_interrupts", "btn_pulls_to_ground", "long_press_time_ms",
     "double_press_time_ms", "state_handled", "last_press_time", "debounce_state"}
Engine(b) == [f \in EngineFields |-> b[f]]

\* the invocations f with those of unregistered slots removed and the others
\* made on the function registered last
Delivered(f, latest) ==
    LET kept == SelectSeq(f, LAMBDA e : latest[e[1]] # NoFunction)
    IN [i \in 1..Len(kept) |-> <<kept[i][1], kept[i][2], latest[kept[i][1]]>>]

\* C11: whichever callbacks are registered, every field of the engine has the
\* value it has with all five registered, and the callbacks invoked are those
\* of the registered slots, each on the function registered last, with the
\* same arguments in the same order.
C11_CallbackSlots ==
    /\ Engine(btn2) = Engine(btn)
    /\ fired2 = Delivered(fired, reg.latest)

\* one tick invoked an edge and a gesture callback on the fully registered
\* object; on the other the slot of one is unset and is skipped, the slot of
\* the other was registered in setup and again later, and function 2 runs
C11_Witness ==
    /\ Len(fired) = 2 /\ Len(fired2) = 1
    /\ fired2[1][3] = 2
    /\ fired2[1][1] \in reg.setup
    /\ \E i \in 1..2 : reg.latest[fired[i][1]] = NoFunction

\* ------------------------------------------------- SerialProxy on its own

\* the button while a specification of a peripheral runs
ButtonIdle ==
    /\ start = 0
    /\ elapsed = 0
    /\ pin = HIGH
    /\ btn = RegisterAll(NewButton(0, DefaultDebounce, TRUE, TRUE,
                                   DefaultLongPress, DefaultDoublePress), 1)
    /\ fired = << >>
    /\ hist = NoHistory
    /\ btn2 = btn
    /\ start2 = 0
    /\ fired2 = << >>
    /\ reg = SetupAll
    /\ call = NoCall

\* the buffers handed to write(buffer, size)
Chunks == UNION {[1..n -> Bytes] : n \in 0..MaxChunk}

InitProxy ==
    /\ ButtonIdle
    /\ lastOp = "init"
    /\ \E buf_size \in 0..MaxCap, allocated \in BOOLEAN :
          proxy = NewSerialProxy(buf_size, allocated)
    /\ written = << >>
    /\ motor = NewMotor
    /\ hw = NewPins
    /\ writes = << >>
    /\ sreg = IdleShiftRegister
    /\ srpins = NewShiftPins(sreg)
    /\ srwrites = << >>

\* SerialProxy::write(uint8_t)
WriteByte ==
    /\ Len(written) < MaxWritten
    /\ \E c \in Bytes :
          /\ proxy' = AppendByte(proxy, c)
          /\ written' = Append(written, c)
    /\ UNCHANGED <<button, motor, hw, writes, shifter>>

\* SerialProxy::write(buffer, size)
WriteBuffer ==
    /\ \E data \in Chunks :
          /\ Len(written) + Len(data) <= MaxWritten
          /\ proxy' = AppendBuffer(proxy, data)
          /\ written' = written \o data
    /\ UNCHANGED <<button, motor, hw, writes, shifter>>

\* SerialProxy::clear
Clear ==
    /\ proxy' = ClearOf(proxy)
    /\ written' = << >>
    /\ UNCHANGED <<button, motor, hw, writes, shifter>>

NextProxy == WriteByte \/ WriteBuffer \/ Clear

SpecProxy == InitProxy /\ [][NextProxy]_vars

Min(a, b) == IF a < b THEN a ELSE b

\* C14: with an allocated buffer of capacity C and n bytes written since
\* construction or the last clear(), head_ < C, size() is min(n, C),
\* wrapped() holds exactly when n >= C, and the min(n, C) bytes before head_
\* are the bytes written last, in write order.
C14_RingContent ==
    proxy.buf_ # << >> =>
       LET C == Capacity(proxy)
           n == Len(written)
       IN /\ proxy.head_ < C
          /\ Size(proxy) = Min(n, C)
          /\ Wrapped(proxy) = (n >= C)
          /\ \A k \in 1..Min(n, C) :
                proxy.buf_[((proxy.head_ + C - k) % C) + 1] = written[n + 1 - k]

\* more bytes than the capacity were written and head_ is inside the buffer
C14_Witness ==
    /\ proxy.buf_ # << >>
    /\ Len(written) > Capacity(proxy)
    /\ Capacity(proxy) > 1
    /\ proxy.head_ > 0
    /\ Wrapped(proxy)

\* the buffered bytes, oldest first
Buffered(p) ==
    IF p.full_
    THEN SubSeq(p.buf_, p.head_ + 1, p.buf_size_) \o SubSeq(p.buf_, 1, p.head_)
    ELSE SubSeq(p.buf_, 1, p.head_)

\* the number of newline-terminated lines in data
Newlines(data) == Cardinality({i \in 1..Len(data) : data[i] = NL})

\* the last k lines of data, each with its newline
LastLines(data, k) ==
    LET n    == Len(data)
        ends == {i \in 1..(n - 1) : data[i] = NL}
    IN IF Cardinality(ends) < k THEN data
       ELSE LET q == CHOOSE i \in ends : Cardinality({j \in ends : j >= i}) = k
            IN SubSeq(data, q + 1, n)

\* C15: when the buffer has not wrapped and its data ends with a newline and
\* holds at least lines newline-terminated lines, tail(lines) is the last
\* lines lines of the buffered data, in write order.
C15_TailLastLines ==
    \A lines \in 1..MaxLines :
        (/\ proxy.buf_ # << >>
         /\ ~Wrapped(proxy)
         /\ Size(proxy) > 0
         /\ Buffered(proxy)[Size(proxy)] = NL
         /\ Newlines(Buffered(proxy)) >= lines)
        => TailOf(proxy, lines) = LastLines(Buffered(proxy), lines)

\* ----------------------------------------------------- DCMotor on its own

\* the speeds handed to setSpeed: the general ones, the limits and one
\* beyond each limit
SpeedInputs ==
    (-MotorSpeeds..MotorSpeeds)
       \cup {-kMaxSpeed - 1, -kMaxSpeed, kMaxSpeed, kMaxSpeed + 1}

\* the variables of the button other than lastOp
idle == <<btn, pin, start, elapsed, fired, hist, btn2, start2, fired2, reg, call>>

InitMotor ==
    /\ ButtonIdle
    /\ lastOp = [op |-> "init", arg |-> 0]
    /\ proxy = NewSerialProxy(1, FALSE)
    /\ written = << >>
    /\ motor = NewMotor
    /\ hw = NewPins
    /\ writes = << >>
    /\ sreg = IdleShiftRegister
    /\ srpins = NewShiftPins(sreg)
    /\ srwrites = << >>

\* the motor after an operation that returned r
MotorBecomes(r) ==
    /\ motor' = r.motor
    /\ hw' = r.hw
    /\ writes' = r.writes

\* DCMotor::setSpeed
SetSpeed ==
    /\ \E speed \in SpeedInputs :
          /\ MotorBecomes(SetSpeedOf(motor, hw, speed))
          /\ lastOp' = [op |-> "setSpeed", arg |-> speed]
    /\ UNCHANGED <<idle, proxy, written, shifter>>

\* DCMotor::stop
Stop ==
    /\ MotorBecomes(StopOf(motor, hw))
    /\ lastOp' = [op |-> "stop", arg |-> 0]
    /\ UNCHANGED <<idle, proxy, written, shifter>>

\* DCMotor::brake
Brake ==
    /\ MotorBecomes(BrakeOf(motor, hw))
    /\ lastOp' = [op |-> "brake", arg |-> 0]
    /\ UNCHANGED <<idle, proxy, written, shifter>>

NextMotor == SetSpeed \/ Stop \/ Brake

SpecMotor == InitMotor /\ [][NextMotor]_vars

\* s clamped to the speed range
Clamped(s) ==
    IF s > kMaxSpeed THEN kMaxSpeed ELSE IF s < -kMaxSpeed THEN -kMaxSpeed ELSE s

\* C16: getSpeed() is within -255..255, after setSpeed(s) it is s clamped to
\* that range, and the PWM value on the enable pin is getMagnitude().
C16_SpeedRange ==
    /\ GetSpeed(motor) \in -kMaxSpeed..kMaxSpeed
    /\ (lastOp.op = "setSpeed" => GetSpeed(motor) = Clamped(lastOp.arg))
    /\ hw.en = GetMagnitude(motor)

\* setSpeed was called with a speed beyond the range and clamped it
C16_Witness ==
    /\ lastOp.op = "setSpeed"
    /\ lastOp.arg < -kMaxSpeed
    /\ GetSpeed(motor) = -kMaxSpeed
    /\ hw.en = kMaxSpeed

\* C17: after setSpeed(0) both direction pins are LOW and the enable PWM is 0.
C17_ZeroCoasts ==
    (lastOp.op = "setSpeed" /\ lastOp.arg = 0) =>
        hw.in1 = LOW /\ hw.in2 = LOW /\ hw.en = 0

\* the sign of s
Sign(s) == IF s > 0 THEN 1 ELSE IF s < 0 THEN -1 ELSE 0

\* the names of the pins written by the last operation
PinsWritten(w) == {w[i][1] : i \in 1..Len(w)}

\* C18: a setSpeed whose clamped argument is the current speed writes no pin;
\* one that keeps the sign and changes the magnitude writes the enable PWM
\* and neither direction pin; and while the speed is non-zero the direction
\* pins match its sign.
C18_WriteSuppression ==
    [][/\ lastOp'.op = "setSpeed" =>
            LET c == Clamped(lastOp'.arg)
            IN /\ (c = GetSpeed(motor) => writes' = << >>)
               /\ (c # GetSpeed(motor) /\ Sign(c) = Sign(GetSpeed(motor)) =>
                      writes' = << <<"en", GetMagnitude(motor')>> >>)
       /\ (GetSpeed(motor') > 0 => hw'.in1 = HIGH /\ hw'.in2 = LOW)
       /\ (GetSpeed(motor') < 0 => hw'.in1 = LOW /\ hw'.in2 = HIGH)]_vars

\* a setSpeed changed the magnitude of a reverse speed and wrote the enable
\* pin only
C18_Witness ==
    /\ lastOp.op = "setSpeed"
    /\ GetSpeed(motor) < 0
    /\ PinsWritten(writes) = {"en"}
    /\ hw.in1 = LOW /\ hw.in2 = HIGH

\* ------------------------------------------- the classifier and the tick

\* C22: the argument of every on-double-pressed invocation is non-zero and
\* less than double_press_time_ms.
C22_DoubleArgBounds ==
    \A i \in 1..Len(fired) :
        fired[i][1] = "onDoublePressed" =>
            /\ fired[i][2] # 0
            /\ fired[i][2] < btn.double_press_time_ms

\* on-double-pressed was invoked for the release that follows an earlier
\* press-release cycle
C22_Witness ==
    /\ PromotedUp /\ hist.cycles >= 2
    /\ GestureNames(fired) = <<"onDoublePressed">>
    /\ GestureEvents(fired)[1][2] = hist.upAt - hist.prevUpAt

\* C28: a gesture callback is invoked only in the tick that promotes the state
\* to UP, and after that tick's on-up; every such tick invokes one; a tick
\* that leaves the state DOWN invokes no gesture callback, and a tick that
\* invokes on-down invokes nothing else.
C28_OrderInTick ==
    /\ (GestureEvents(fired) # << >> =>
           /\ Len(fired) = 2
           /\ fired[1][1] = "onUp"
           /\ IsGesture(fired[2])
           /\ hist.upAt = elapsed)
    /\ (PromotedUp => Len(GestureEvents(fired)) = 1)
    /\ (IsDown(btn) => GestureEvents(fired) = << >>)
    /\ ((\E i \in 1..Len(fired) : fired[i][1] = "onDown") =>
           NamesAndArgs(fired) = << <<"onDown", 0>> >>)

\* a tick promoted the state to UP and invoked on-up and then a gesture
C28_Witness ==
    /\ lastOp = "tick"
    /\ hist.upAt = elapsed
    /\ Len(fired) = 2
    /\ fired[1][1] = "onUp"
    /\ fired[2][1] \in {"onPressed", "onDoublePressed", "onLongPressed"}

\* C29: a release that fired on-double-pressed is not the anchor of another
\* double-press: of the third and later releases, one that follows a release
\* classified as a double-press is not classified as a double-press itself.
C29_DoubleConsumed ==
    (/\ PromotedUp
     /\ hist.cycles >= 3
     /\ \E i \in 1..Len(hist.prevGest) : hist.prevGest[i][1] = "onDoublePressed")
    => \A i \in 1..Len(fired) : fired[i][1] # "onDoublePressed"

\* the last step was a tick that promoted the state to DOWN
PromotesDown == lastOp' = "tick" /\ btn.state = BUTTON_UP /\ btn'.state = BUTTON_DOWN

\* C24 as stated: a tick that promotes the state to DOWN leaves state_handled
\* as it was.
C24_DownKeepsHandled ==
    [][PromotesDown => btn'.state_handled = btn.state_handled]_vars

\* C24 as amended: every promotion, to DOWN as to UP, sets state_handled to
\* false; the classifier, which acts in state UP only, sets it to true in the
\* tick of the promotion to UP; no other operation changes it.
C24_PromotionClearsHandled ==
    [][/\ (PromotesDown => ~btn'.state_handled)
       /\ (btn'.state_handled # btn.state_handled =>
              /\ lastOp' = "tick"
              /\ btn'.state # btn.state
              /\ btn'.state_handled = (btn'.state = BUTTON_UP))]_vars

\* a promotion to DOWN has cleared state_handled, which the classifier had
\* set at the release before
C24_Witness ==
    /\ lastOp = "tick"
    /\ hist.downAt = elapsed
    /\ hist.cycles >= 1
    /\ IsDown(btn)
    /\ ~btn.state_handled

\* A configuration whose long-press threshold is below the double-press
\* window, so that a long hold can end within the window of the release
\* before it.

\* long_press_time_ms of that configuration
CfgShortLongPress == 2

InitPrecedence ==
    /\ start \in StartTimes
    /\ elapsed = 0
    /\ pin \in {LOW, HIGH}
    /\ \E useInt \in BOOLEAN, pulls \in BOOLEAN :
          btn = RegisterAll(NewButton(start, CfgDebounce, useInt, pulls,
                                       CfgShortLongPress, CfgDoublePress), 1)
    /\ fired = << >>
    /\ lastOp = "init"
    /\ hist = NoHistory
    /\ btn2 = btn
    /\ start2 = start
    /\ fired2 = << >>
    /\ PeriphIdle
    /\ reg = SetupAll
    /\ call = NoCall

SpecPrecedence == InitPrecedence /\ [][Next]_vars

\* C21: a release after a hold of at least long_press_time_ms invokes
\* on-long-pressed and not on-double-pressed, also when the release before it
\* lies within double_press_time_ms; a tick invokes at most one gesture
\* callback and the branch that invokes it sets state_handled.
C21_LongBeforeDouble ==
    /\ (PromotedUp /\ hist.hold >= btn.long_press_time_ms) =>
          GestureNames(fired) = <<"onLongPressed">>
    /\ Len(GestureEvents(fired)) <= 1
    /\ (GestureEvents(fired) # << >> => btn.state_handled)

\* a long hold ended within the double-press window of the release before it
\* and was classified as a long press
C21_Witness ==
    /\ PromotedUp
    /\ hist.prevUpAt >= 0
    /\ hist.upAt - hist.prevUpAt < btn.double_press_time_ms
    /\ hist.hold >= btn.long_press_time_ms
    /\ GestureNames(fired) = <<"onLongPressed">>
    /\ btn.state_handled

\* C30: when the buffered data holds fewer than lines newlines, tail(lines)
\* is all the buffered bytes, oldest first, before and after the ring has
\* wrapped.
C30_TailAllAvailable ==
    \A lines \in 1..MaxLines :
        (proxy.buf_ # << >> /\ Newlines(Buffered(proxy)) < lines)
        => TailOf(proxy, lines) = Buffered(proxy)

\* ------------------------------- ticks, handlers and registrations together

\* the program calls one of the five setters on the object while it runs
RegisterCallback ==
    /\ reg.registrations < MaxRegistrations
    /\ \E name \in SlotNames, callback \in Functions :
          /\ btn' = Register(btn, name, callback)
          /\ reg' = [reg EXCEPT !.latest[name] = callback,
                                !.registrations = @ + 1]
    /\ lastOp' = "register"
    /\ fired' = << >>
    /\ UNCHANGED <<pin, start, elapsed, hist, second, periph, call>>

NextFrame ==
    \/ \E dt \in 0..MaxStep : Tick(dt, MaxElapsedReg)
    \/ PinEdge
    \/ HandleOnDownInterrupt
    \/ HandleOnUpInterrupt
    \/ RegisterCallback

SpecFrame == Init /\ [][NextFrame]_vars

\* the elapsed time at which the current debounced state was entered
EnteredAt ==
    IF IsDown(btn) THEN hist.downAt
    ELSE IF hist.upAt >= 0 THEN hist.upAt ELSE 0

\* C23: a tick that promotes a new debounced state sets
\* duration_in_previous_state to now minus the time the old state was entered
\* and time_entered_state to now; every other tick, every handler call and
\* every registration leaves both unchanged.
C23_DurationFrozen ==
    [][IF lastOp' = "tick" /\ btn'.state # btn.state
       THEN /\ GetTimeInLastState(btn') = elapsed' - EnteredAt
            /\ GetTimeInLastState(btn') =
                  Sub((start + elapsed') % Wrap, btn.time_entered_state)
            /\ btn'.time_entered_state = (start + elapsed') % Wrap
       ELSE /\ GetTimeInLastState(btn') = GetTimeInLastState(btn)
            /\ btn'.time_entered_state = btn.time_entered_state]_vars

\* a registration was made after a release and the duration of the hold is
\* still reported
C23_Witness ==
    /\ lastOp = "register"
    /\ hist.cycles >= 1
    /\ IsUp(btn)
    /\ GetTimeInLastState(btn) = hist.hold
    /\ hist.hold > 0

\* b without its cell state_from_interrupt
WithoutCell(b) == [f \in DOMAIN b \ {"state_from_interrupt"} |-> b[f]]

\* C25: the interrupt handlers write state_from_interrupt and nothing else,
\* tick() writes neither state_from_interrupt nor a callback slot, and a
\* setter writes no field of the engine.
C25_SharedCell ==
    [][/\ (lastOp' \in {"handleOnDown", "handleOnUp"} =>
              WithoutCell(btn') = WithoutCell(btn))
       /\ (lastOp' = "tick" =>
              /\ btn'.state_from_interrupt = btn.state_from_interrupt
              /\ \A f \in DOMAIN btn \ EngineFields : btn'[f] = btn[f])
       /\ (lastOp' = "register" => Engine(btn') = Engine(btn))
       /\ (lastOp' = "edge" => btn' = btn)]_vars

\* the up handler has written the cell while the debounce filter and the
\* debounced state still hold DOWN
C25_Witness ==
    /\ lastOp = "handleOnUp"
    /\ btn.state_from_interrupt = BUTTON_UP
    /\ btn.debounce_state = BUTTON_DOWN
    /\ IsDown(btn)

\* ------------------------------------- tick() interleaved with the handlers
\* tick() runs in four steps, the handlers may run between any two of them:
\* the read of the cell (lines 61-69), millis() and the debounce filter
\* (lines 71-75), the promotion (lines 77-97), the classifier (lines 99-122).

\* the horizon of the interleaved histories
MaxElapsedSteps == 12

\* mutant of Snapshot: the cell is read again at each use of the reading
Snapshot_Reload(c, b, level) == Reading(b, level)

\* the local variable reading of the call c
Snapshot(c, b, level) == c.reading

InitInterleave ==
    /\ start \in StartTimes
    /\ elapsed = 0
    /\ pin \in {LOW, HIGH}
    /\ btn = RegisterAll(NewButton(start, CfgDebounce, TRUE, TRUE,
                                   CfgLongPress, CfgDoublePress), 1)
    /\ fired = << >>
    /\ lastOp = "init"
    /\ hist = NoHistory
    /\ btn2 = btn
    /\ start2 = start
    /\ fired2 = << >>
    /\ PeriphIdle
    /\ reg = SetupAll
    /\ call = NoCall

\* dt milliseconds pass, tick() is called and takes its reading
TickRead(dt) ==
    /\ call.pc = "idle"
    /\ elapsed + dt <= MaxElapsedSteps
    /\ elapsed' = elapsed + dt
    /\ call' = [pc |-> "read", reading |-> Reading(btn, pin), level |-> pin,
                now |-> 0, promoted |-> FALSE, before |-> btn]
    /\ fired' = << >>
    /\ lastOp' = "read"
    /\ UNCHANGED <<btn, pin, start, hist, second, periph, reg>>

\* tick() reads millis() and runs the debounce filter
TickDebounce ==
    /\ call.pc = "read"
    /\ btn' = Debounce(btn, Snapshot(call, btn, pin), Millis)
    /\ call' = [call EXCEPT !.pc = "debounced", !.now = Millis]
    /\ UNCHANGED <<pin, start, elapsed, fired, lastOp, hist, second, periph, reg>>

\* tick() promotes the reading or not, and invokes the edge callback
TickPromote ==
    /\ call.pc = "debounced"
    /\ LET reading == Snapshot(call, btn, pin)
           p == Promotes(btn, reading, call.now)
       IN /\ btn' = IF p THEN Promote(btn, reading, call.now) ELSE btn
          /\ fired' = IF p THEN EdgeCallback(btn') ELSE << >>
          /\ call' = [call EXCEPT !.pc = "promoted", !.promoted = p]
    /\ UNCHANGED <<pin, start, elapsed, lastOp, hist, second, periph, reg>>

\* tick() runs the classifier and returns
TickClassify ==
    /\ call.pc = "promoted"
    /\ LET c == Classify(btn, call.now)
           r == [btn |-> c.btn, fired |-> fired \o c.fired,
                 reading |-> call.reading, promoted |-> call.promoted]
       IN /\ btn' = c.btn
          /\ fired' = r.fired
          /\ hist' = HistAfterTick(hist, call.before, r, elapsed)
    /\ call' = NoCall
    /\ lastOp' = "tick"
    /\ UNCHANGED <<pin, start, elapsed, second, periph, reg>>

\* the pin changes level and the attached handler runs, at any position of
\* a tick() call or between two calls
PinInterrupt ==
    /\ pin' = LogicalNot(pin)
    /\ btn' = Notify(btn, pin')
    /\ UNCHANGED <<start, elapsed, fired, lastOp, hist, second, periph, reg, call>>

NextInterleave ==
    \/ \E dt \in 0..MaxStep : TickRead(dt)
    \/ TickDebounce
    \/ TickPromote
    \/ TickClassify
    \/ PinInterrupt

SpecInterleave == InitInterleave /\ [][NextInterleave]_vars

\* C26: whatever the handlers do during a tick() call, the call leaves the
\* engine fields and invokes the callbacks as a tick() without interruption
\* does on the level it read; it invokes at most one edge callback, the
\* opposite of the one invoked last, and no second gesture callback for a
\* release.
C26_SingleSnapshot ==
    [][(call.pc = "promoted" /\ call'.pc = "idle") =>
          LET r == TickOf(call.before, call.level, call.now)
              edges == EdgeEvents(fired')
          IN /\ WithoutCell(btn') = WithoutCell(r.btn)
             /\ fired' = r.fired
             /\ Len(edges) <= 1
             /\ (Len(edges) = 1 =>
                    edges[1][1] = (IF hist.lastEdge = "onDown"
                                   THEN "onUp" ELSE "onDown"))
             /\ hist'.gestures <= 1]_vars

\* a handler changed the cell after the call took its reading, and the call
\* promoted the reading it took
C26_Witness ==
    /\ call.pc = "promoted"
    /\ call.promoted
    /\ btn.state = call.reading
    /\ btn.state_from_interrupt # call.reading

\* ---------------------------------------------------------------- liveness
\* The main loop keeps calling tick() while millis() advances: the ticks that
\* advance the time are taken as long as the horizon allows one.

\* the horizon of the histories with fairness
MaxElapsedLive == 7

\* millis() advances and the main loop calls tick()
Advance == \E dt \in 1..MaxStep : Tick(dt, MaxElapsedLive)

\* tick() is called again within the same millisecond
TickAgain == Tick(0, MaxElapsedLive)

NextLive ==
    \/ Advance
    \/ TickAgain
    \/ PinEdge
    \/ HandleOnDownInterrupt
    \/ HandleOnUpInterrupt

InitLive ==
    /\ start \in StartTimes
    /\ elapsed = 0
    /\ pin \in {LOW, HIGH}
    /\ \E useInt \in BOOLEAN :
          btn = RegisterAll(NewButton(start, CfgDebounce, useInt, TRUE,
                                       CfgLongPress, CfgDoublePress), 1)
    /\ fired = << >>
    /\ lastOp = "init"
    /\ hist = NoHistory
    /\ btn2 = btn
    /\ start2 = start
    /\ fired2 = << >>
    /\ PeriphIdle
    /\ reg = SetupAll
    /\ call = NoCall

SpecLive == InitLive /\ [][NextLive]_vars /\ WF_vars(Advance)

\* the normalised level a tick() called now would read
Raw == Reading(btn, pin)

\* the edge callback of a promotion to level
EdgeName(level) == IF level = BUTTON_DOWN THEN "onDown" ELSE "onUp"

\* the level differs from the debounced state, and the horizon leaves the
\* time for the next tick, the debounce window and the tick after it
Pending(level) ==
    /\ Raw = level
    /\ btn.state # level
    /\ elapsed + 2 * MaxStep + btn.debounce_delay_ms <= MaxElapsedLive

\* the level has changed again, or a tick has promoted it and invoked its
\* edge callback
Settled(level) ==
    \/ Raw # level
    \/ /\ btn.state = level
       /\ \E i \in 1..Len(fired) : fired[i][1] = EdgeName(level)

\* C27: a level that differs from the debounced state and stays is eventually
\* promoted, with its on-down or on-up callback; a tick whose reading differs
\* from the reading of the tick before it promotes nothing, so a reading that
\* changes between every two ticks is never promoted.
C27_PromotionLiveness ==
    /\ Pending(BUTTON_DOWN) ~> Settled(BUTTON_DOWN)
    /\ Pending(BUTTON_UP) ~> Settled(BUTTON_UP)
    /\ [][(lastOp' = "tick" /\ hist'.runLevel # hist.runLevel) =>
             btn'.state = btn.state]_vars

\* a level that stayed for longer than the debounce window was promoted
C27_Witness ==
    /\ lastOp = "tick"
    /\ hist.downAt = elapsed
    /\ IsDown(btn) /\ Raw = BUTTON_DOWN
    /\ elapsed - hist.runStart > btn.debounce_delay_ms
    /\ \E i \in 1..Len(fired) : fired[i][1] = "onDown"

\* ------------------------------------------------ ShiftRegister on its own

\* the indices handed to set() and get() on a register of n bits
IndexInputs(n) ==
    (0..(IndexSpan - 1)) \cup ((n - IndexSpan)..(n + IndexSpan - 1)) \cup {255}

\* the numbers of registers handed to the constructor: the smallest and the
\* largest valid ones, one beyond each, and one in between
RegisterCounts == {0, 1, 2, 8, 9}

InitRegister ==
    /\ ButtonIdle
    /\ lastOp = [op |-> "init", index |-> 0, value |-> FALSE, update |-> FALSE,
                 ret |-> FALSE]
    /\ proxy = NewSerialProxy(1, FALSE)
    /\ written = << >>
    /\ motor = NewMotor
    /\ hw = NewPins
    /\ writes = << >>
    /\ \E num_registers \in RegisterCounts : sreg = NewShiftRegister(2, 3, 4, num_registers)
    /\ srpins = NewShiftPins(sreg)
    /\ srwrites = << >>

\* the shift register after an operation that returned r
RegisterBecomes(r) ==
    /\ sreg' = r.sreg
    /\ srpins' = r.pins
    /\ srwrites' = r.writes

\* ShiftRegister::set
Set ==
    /\ \E index \in IndexInputs(GetNumBits(sreg)), value \in BOOLEAN, update \in BOOLEAN :
          LET r == SetOf(sreg, srpins, index, value, update)
          IN /\ RegisterBecomes(r)
             /\ lastOp' = [op |-> "set", index |-> index, value |-> value,
                           update |-> update, ret |-> r.ret]
    /\ UNCHANGED <<idle, proxy, written, motor, hw, writes>>

\* ShiftRegister::setAll
SetAll ==
    /\ \E value \in BOOLEAN :
          /\ RegisterBecomes(SetAllOf(sreg, srpins, value))
          /\ lastOp' = [op |-> "setAll", index |-> 0, value |-> value,
                        update |-> TRUE, ret |-> FALSE]
    /\ UNCHANGED <<idle, proxy, written, motor, hw, writes>>

\* ShiftRegister::clear
ClearRegister ==
    /\ RegisterBecomes(ClearRegisterOf(sreg, srpins))
    /\ lastOp' = [op |-> "clear", index |-> 0, value |-> FALSE,
                  update |-> TRUE, ret |-> FALSE]
    /\ UNCHANGED <<idle, proxy, written, motor, hw, writes>>

\* ShiftRegister::push_updates; the force argument is kept in lastOp.update
PushUpdates ==
    /\ \E force \in BOOLEAN :
          /\ RegisterBecomes(PushUpdatesOf(sreg, srpins, force))
          /\ lastOp' = [op |-> "push_updates", index |-> 0, value |-> FALSE,
                        update |-> force, ret |-> FALSE]
    /\ UNCHANGED <<idle, proxy, written, motor, hw, writes>>

NextRegister == Set \/ SetAll \/ ClearRegister \/ PushUpdates

SpecRegister == InitRegister /\ [][NextRegister]_vars

\* C31: set(index, value, update) with index >= getNumBits() returns false
\* and changes neither getValue() nor isDirty() nor any pin; with index <
\* getNumBits() it returns true, changes only bit index of the value, and
\* get(index) afterwards returns value; get on an out-of-range index returns
\* false.
C31_OutOfRangeAccess ==
    [][/\ lastOp'.op = "set" =>
            LET index == lastOp'.index
            IN /\ index >= GetNumBits(sreg) =>
                      /\ ~lastOp'.ret
                      /\ GetValue(sreg') = GetValue(sreg)
                      /\ IsDirty(sreg') = IsDirty(sreg)
                      /\ srpins' = srpins
                      /\ srwrites' = << >>
               /\ index < GetNumBits(sreg) =>
                      /\ lastOp'.ret
                      /\ GetValue(sreg') \ {index} = GetValue(sreg) \ {index}
                      /\ Get(sreg', index) = lastOp'.value
       /\ \A index \in 0..255 :
             index >= GetNumBits(sreg) => ~Get(sreg, index)]_vars

\* set(getNumBits(), true, true) was refused on a register that holds 1 bits
\* and unpushed changes
C31_Witness ==
    /\ lastOp.op = "set"
    /\ lastOp.index = GetNumBits(sreg)
    /\ lastOp.value /\ lastOp.update
    /\ ~lastOp.ret
    /\ GetValue(sreg) # {}
    /\ IsDirty(sreg)

====
